---- MODULE Spec2Model ----
(***************************************************************************)
(* A model of src/main.py, the console over the CTA2 "L" ridership         *)
(* database: the command loop of main and the nine commands it dispatches. *)
(*                                                                         *)
(* Text is a sequence of ASCII codes, so that LIKE's case folding,         *)
(* str.title(), str.upper() and ORDER BY's binary collation are computed   *)
(* and not assumed.  A calendar date 'YYYY-MM-DD' is the triple <<y,m,d>>. *)
(* Latitudes and longitudes are integers in units of 1e-6 degree.          *)
(* A percentage printed with two decimals is an integer count of           *)
(* hundredths of a percent.                                                *)
(***************************************************************************)
EXTENDS Integers, Sequences, FiniteSets, TLC

VARIABLES db, connOpen, pc, command, locals, out, plot, err

vars == <<db, connOpen, pc, command, locals, out, plot, err>>

-----------------------------------------------------------------------------
(* Bounds of the model *)

\* largest Num_Riders of a ridership row in the day-type families
MaxRiders == 6
\* largest number of days of one station's daily series in the daily families
MaxDays == 11
\* largest number of days of the other station's series
MaxOtherDays == 3
\* largest weekday total of a station in the weekday families
MaxWeekdayRiders == 2

-----------------------------------------------------------------------------
(* Text *)

IsUpperCh(c) == c >= 65 /\ c <= 90
IsLowerCh(c) == c >= 97 /\ c <= 122
IsAlphaCh(c) == IsUpperCh(c) \/ IsLowerCh(c)
LowerCh(c) == IF IsUpperCh(c) THEN c + 32 ELSE c
UpperCh(c) == IF IsLowerCh(c) THEN c - 32 ELSE c

\* str.lower(), str.upper()
StrLower(s) == [i \in 1..Len(s) |-> LowerCh(s[i])]
StrUpper(s) == [i \in 1..Len(s) |-> UpperCh(s[i])]

\* str.title(): a letter that follows a non-letter (or starts the text) is
\* upper-cased, every other letter is lower-cased
StrTitle(s) ==
    [i \in 1..Len(s) |->
        IF i = 1 \/ ~IsAlphaCh(s[i - 1]) THEN UpperCh(s[i]) ELSE LowerCh(s[i])]

\* str.strip(): leading and trailing blanks removed
RECURSIVE StripLeft(_)
StripLeft(s) == IF s # <<>> /\ Head(s) = 32 THEN StripLeft(Tail(s)) ELSE s
RECURSIVE StripRight(_)
StripRight(s) ==
    IF s # <<>> /\ s[Len(s)] = 32 THEN StripRight(SubSeq(s, 1, Len(s) - 1)) ELSE s
StrStrip(s) == StripRight(StripLeft(s))

\* SQLite's  text LIKE pattern :  % is any run of characters, _ is any one
\* character, letters match without regard to ASCII case
RECURSIVE Like(_, _)
Like(p, s) ==
    IF p = <<>> THEN s = <<>>
    ELSE IF Head(p) = 37
         THEN \E k \in 0..Len(s) : Like(Tail(p), SubSeq(s, k + 1, Len(s)))
    ELSE IF s = <<>> THEN FALSE
    ELSE IF Head(p) = 95 THEN Like(Tail(p), Tail(s))
    ELSE LowerCh(Head(p)) = LowerCh(Head(s)) /\ Like(Tail(p), Tail(s))

\* lexicographic order of integer sequences: the binary collation of text
RECURSIVE SeqLeq(_, _)
SeqLeq(a, b) ==
    IF a = <<>> THEN TRUE
    ELSE IF b = <<>> THEN FALSE
    ELSE IF Head(a) < Head(b) THEN TRUE
    ELSE IF Head(a) > Head(b) THEN FALSE
    ELSE SeqLeq(Tail(a), Tail(b))

\* ORDER BY: every order of the rows S that is ascending in key[row].  Rows
\* with equal keys come in an order SQL leaves open, so each is possible.
RECURSIVE Orderings(_, _)
Orderings(S, key) ==
    IF S = {} THEN {<<>>}
    ELSE UNION { { <<m>> \o t : t \in Orderings(S \ {m}, key) } :
                 m \in {x \in S : \A y \in S : SeqLeq(key[x], key[y])} }

RECURSIVE SumSeq(_)
SumSeq(s) == IF s = <<>> THEN 0 ELSE Head(s) + SumSeq(Tail(s))

RECURSIVE SumRiders(_)
SumRiders(S) ==
    IF S = {} THEN 0
    ELSE LET r == CHOOSE x \in S : TRUE IN r.Num_Riders + SumRiders(S \ {r})

\* the percentage cut to two decimals and not rounded
PctHundredthsTruncated(count, total) == (count * 10000) \div total

\* f"{x:.2f}" of (count / total) * 100, in hundredths of a percent: the
\* nearest hundredth, a tie going to the even one
PctHundredths(count, total) ==
    LET n == count * 10000
        q == n \div total
        r == n % total
    IN IF 2 * r > total THEN q + 1
       ELSE IF 2 * r < total THEN q
       ELSE IF q % 2 = 0 THEN q ELSE q + 1

-----------------------------------------------------------------------------
(* The dataset: the tables of CTA2_L_daily_ridership.db that the queries read *)

\* "Ab", "Abb", "Ba", "A", "B": names of stations, stops and line colours
TxtAb == <<65, 98>>
TxtAbb == <<65, 98, 98>>
TxtBa == <<66, 97>>
TxtA == <<65>>
TxtB == <<66>>
\* "N", "S": directions
DirN == <<78>>
DirS == <<83>>

Station(id, name) == [Station_ID |-> id, Station_Name |-> name]
Line(id, color) == [Line_ID |-> id, Color |-> color]
Stop(id, station, name, dir, ada, lat, lon) ==
    [Stop_ID |-> id, Station_ID |-> station, Stop_Name |-> name,
     Direction |-> dir, ADA |-> ada, Latitude |-> lat, Longitude |-> lon]
StopDetail(stop, line) == [Stop_ID |-> stop, Line_ID |-> line]
Ride(station, date, type, riders) ==
    [Station_ID |-> station, Ride_Date |-> date, Type_of_Day |-> type,
     Num_Riders |-> riders]

BaseStations == {Station(1, TxtAb), Station(2, TxtAbb), Station(3, TxtBa)}
BaseLines == {Line(1, TxtAb), Line(2, TxtBa)}
BaseStops ==
    {Stop(1, 1, TxtB, DirN, TRUE, 41850000, -87650000),
     Stop(2, 1, TxtA, DirN, FALSE, 41851000, -87650000),
     Stop(3, 2, TxtA, DirS, TRUE, 41900000, -87700000)}
BaseStopDetails == {StopDetail(1, 1), StopDetail(2, 1), StopDetail(3, 1)}
BaseRidership ==
    {Ride(1, <<2020, 1, 1>>, "U", 2), Ride(1, <<2020, 1, 2>>, "W", 3),
     Ride(1, <<2021, 3, 1>>, "W", 1), Ride(2, <<2020, 1, 2>>, "W", 3),
     Ride(2, <<2020, 1, 4>>, "A", 1)}

BaseDB ==
    [Stations |-> BaseStations, Stops |-> BaseStops, Lines |-> BaseLines,
     StopDetails |-> BaseStopDetails, Ridership |-> BaseRidership]

-----------------------------------------------------------------------------
(* What the user may type *)

\* name patterns: "Ab", "ab", "A", "%b", "Ab_", "%", "Zz" (as "Bb"), "_a"
PatternInputs ==
    {TxtAb, <<97, 98>>, TxtA, <<37, 98>>, <<65, 98, 95>>, <<37>>, <<66, 98>>,
     <<95, 97>>}
\* exact station names for command 2: "Ab", "ab", "Abb", "Bb"
StationNameInputs == {TxtAb, <<97, 98>>, TxtAbb, <<66, 98>>}
\* line colours: "ab", " AB ", "Ba", "b"
ColorInputs == {<<97, 98>>, <<32, 65, 66, 32>>, TxtBa, <<98>>}
\* directions: "n", "S", "e"
DirectionInputs == {<<110>>, DirS, <<101>>}
YearInputs == {2020, 2021}
\* answers to "Plot? (y/n)": "y", "Y", "n"
PlotInputs == {<<121>>, <<89>>, <<110>>}

Ev(name) == [ev |-> name]
NoLocals == [fn |-> "none"]
NoPlot == [kind |-> "none"]

\* the errors that are raised and not caught: they end the process
Fatal == {"MalformedInput", "ZeroDivisionError", "EmptyStats", "PlotError"}
\* the reported error outcomes of a command
Reported == {"NotFound", "Ambiguous", "OutOfRange", "InvalidSelector"}

-----------------------------------------------------------------------------
(* print_stats *)

\* min(Ride_Date) and sum(Num_Riders) of an empty Ridership table are NULL:
\* None.split raises
print_stats(d) ==
    IF d.Ridership = {}
    THEN [out |-> <<Ev("Welcome")>>, err |-> "EmptyStats"]
    ELSE [out |-> <<Ev("Welcome"),
                    [ev |-> "Stats", stations |-> Cardinality(d.Stations),
                     stops |-> Cardinality(d.Stops),
                     entries |-> Cardinality(d.Ridership),
                     total |-> SumRiders(d.Ridership)]>>,
          err |-> "none"]

-----------------------------------------------------------------------------
(* find_station_names *)

StationsLike(d, pattern) == {s \in d.Stations : Like(pattern, s.Station_Name)}

find_station_names(d, partial_name) ==
    LET rows == StationsLike(d, partial_name)
    IN IF rows = {}
       THEN {[out |-> <<Ev("NoStationsFound")>>, err |-> "NotFound"]}
       ELSE {[out |-> [i \in 1..Len(stations) |->
                         [ev |-> "Station", id |-> stations[i].Station_ID,
                          name |-> stations[i].Station_Name]],
              err |-> "none"] :
             stations \in Orderings(rows, [s \in rows |-> s.Station_Name])}

-----------------------------------------------------------------------------
(* ridership_percentages *)

\* ORDER BY CASE WHEN Type_of_Day = 'W' THEN 1 WHEN Type_of_Day = 'A' THEN 2 ELSE 3 END
DayTypeRank(t) == IF t = "W" THEN 1 ELSE IF t = "A" THEN 2 ELSE 3

DayString(t) ==
    IF t = "W" THEN "Weekday" ELSE IF t = "A" THEN "Saturday" ELSE "Sunday/holiday"

\* Ridership JOIN Stations WHERE Station_Name = ? GROUP BY Type_of_Day
RidershipByDayType(d, station_name) ==
    LET rows == {r \in d.Ridership :
                   \E s \in d.Stations : /\ s.Station_ID = r.Station_ID
                                         /\ s.Station_Name = station_name}
    IN {[Type_of_Day |-> t,
         count |-> SumRiders({r \in rows : r.Type_of_Day = t})] :
        t \in {r.Type_of_Day : r \in rows}}

TotalRidership(results) == SumSeq([i \in 1..Len(results) |-> results[i].count])

ridership_percentages(d, station_name) ==
    LET groups == RidershipByDayType(d, station_name)
    IN IF groups = {}
       THEN {[out |-> <<Ev("NoDataFound")>>, err |-> "NotFound"]}
       ELSE {LET total_ridership == TotalRidership(results)
                 header == [ev |-> "PercentageHeader", station |-> station_name]
             IN IF total_ridership = 0
                \* count / total_ridership raises in the first row of the loop
                THEN [out |-> <<header>>, err |-> "ZeroDivisionError"]
                ELSE [out |-> <<header>>
                              \o [i \in 1..Len(results) |->
                                    [ev |-> "DayType",
                                     label |-> DayString(results[i].Type_of_Day),
                                     count |-> results[i].count,
                                     pct |-> PctHundredths(results[i].count,
                                                           total_ridership)]]
                              \o <<[ev |-> "Total", total |-> total_ridership]>>,
                      err |-> "none"] :
             results \in Orderings(groups,
                                   [g \in groups |-> <<DayTypeRank(g.Type_of_Day)>>])}

-----------------------------------------------------------------------------
(* total_weekday_ridership *)

\* Ridership JOIN Stations WHERE Type_of_Day = 'W' GROUP BY Stations.Station_ID
WeekdayByStation(d) ==
    LET rows == {r \in d.Ridership :
                   /\ r.Type_of_Day = "W"
                   /\ \E s \in d.Stations : s.Station_ID = r.Station_ID}
    IN {[Station_ID |-> s.Station_ID, Station_Name |-> s.Station_Name,
         count |-> SumRiders({r \in rows : r.Station_ID = s.Station_ID})] :
        s \in {st \in d.Stations : \E r \in rows : r.Station_ID = st.Station_ID}}

\* ORDER BY Total_Riders DESC, and nothing else
WeekdayOrderKey(g) == <<-g.count>>

total_weekday_ridership(d) ==
    LET groups == WeekdayByStation(d)
    IN {LET total_ridership == TotalRidership(results)
            header == Ev("WeekdayHeader")
        IN IF results # <<>> /\ total_ridership = 0
           THEN [out |-> <<header>>, err |-> "ZeroDivisionError"]
           ELSE [out |-> <<header>>
                         \o [i \in 1..Len(results) |->
                               [ev |-> "StationTotal",
                                name |-> results[i].Station_Name,
                                count |-> results[i].count,
                                pct |-> PctHundredths(results[i].count,
                                                      total_ridership)]],
                 err |-> "none"] :
        results \in Orderings(groups, [g \in groups |-> WeekdayOrderKey(g)])}

-----------------------------------------------------------------------------
(* list_stops_by_line_and_direction *)

\* Stops JOIN StopDetails JOIN Lines: one row per stop and line it is on
StopsOnLines(d) ==
    {[stop |-> s, line |-> l] :
     <<s, l>> \in {<<s, l>> \in d.Stops \X d.Lines :
                     StopDetail(s.Stop_ID, l.Line_ID) \in d.StopDetails}}

\* SELECT Line_ID FROM Lines WHERE Color = ?
LineExists(d, line_color) == \E l \in d.Lines : l.Color = line_color

\* SELECT DISTINCT Direction ... WHERE Color = ?
ValidDirections(d, line_color) ==
    {r.stop.Direction : r \in {x \in StopsOnLines(d) : x.line.Color = line_color}}

\* the rows left in the order of their Stop_ID
StopsOrderKeyById(r) == <<r.stop.Stop_ID>>

\* ... WHERE Color = ? AND Direction = ? ORDER BY Stop_Name
StopsOrderKey(r) == r.stop.Stop_Name

\* main strips and title-cases the entry, the function title-cases it again;
\* the part of the function up to  input("Enter a direction (N/S/W/E): ")
list_stops_line(d, entry) ==
    LET line_color == StrTitle(StrTitle(StrStrip(entry)))
    IN IF ~LineExists(d, line_color)
       THEN [out |-> <<Ev("NoSuchLine")>>, err |-> "InvalidSelector",
             pc |-> "loop",
             locals |-> [fn |-> "list_stops", line_color |-> line_color]]
       ELSE [out |-> <<Ev("PromptDirection")>>, err |-> "none",
             pc |-> "list_stops_direction",
             locals |-> [fn |-> "list_stops", line_color |-> line_color]]

\* the part of the function after the direction is entered
list_stops_direction(d, line_color, entry) ==
    LET direction == StrUpper(entry)
        rows == {r \in StopsOnLines(d) :
                   r.line.Color = line_color /\ r.stop.Direction = direction}
    IN IF direction \notin ValidDirections(d, line_color)
       THEN {[out |-> <<Ev("NotRunDirection")>>, err |-> "InvalidSelector",
              direction |-> direction]}
       ELSE IF rows = {}
       THEN {[out |-> <<Ev("NoStopsFound")>>, err |-> "none",
              direction |-> direction]}
       ELSE {[out |-> [i \in 1..Len(results) |->
                         [ev |-> "Stop", name |-> results[i].stop.Stop_Name,
                          direction |-> direction,
                          accessible |-> results[i].stop.ADA]],
              err |-> "none", direction |-> direction] :
             results \in Orderings(rows, [r \in rows |-> StopsOrderKey(r)])}

-----------------------------------------------------------------------------
(* stops_for_each_color_by_direction *)

\* the rows of StopDetails counted in place of those of Stops
TotalStopsOfDetails(d) == Cardinality(d.StopDetails)

\* SELECT COUNT(*) FROM Stops
TotalStops(d) == Cardinality(d.Stops)

\* GROUP BY Lines.Color, Stops.Direction with COUNT(*)
StopsByColorDirection(d) ==
    {[color |-> k[1], direction |-> k[2],
      num_stops |-> Cardinality({r \in StopsOnLines(d) :
                                   r.line.Color = k[1] /\ r.stop.Direction = k[2]})] :
     k \in {<<r.line.Color, r.stop.Direction>> : r \in StopsOnLines(d)}}

\* ORDER BY Lines.Color ASC, Stops.Direction ASC: the colour, an end mark
\* below every character, the direction
ColorDirectionKey(g) == g.color \o <<-1>> \o g.direction

stops_for_each_color_by_direction(d) ==
    LET total_stops == TotalStops(d)
        groups == StopsByColorDirection(d)
    IN {[out |-> <<[ev |-> "StopsHeader", total_stops |-> total_stops]>>
                 \o [i \in 1..Len(results) |->
                       [ev |-> "ColorDirection", color |-> results[i].color,
                        direction |-> results[i].direction,
                        num_stops |-> results[i].num_stops,
                        pct |-> PctHundredths(results[i].num_stops, total_stops)]],
         err |-> "none"] :
        results \in Orderings(groups, [g \in groups |-> ColorDirectionKey(g)])}

-----------------------------------------------------------------------------
(* yearly_ridership and monthly_ridership *)

\* SELECT DISTINCT Station_Name FROM Stations WHERE Station_Name LIKE ?
\* and the two tests of len(matching_stations)
ResolveYearly(d, station_name) ==
    LET matching_stations == {s.Station_Name : s \in StationsLike(d, station_name)}
    IN IF Cardinality(matching_stations) = 0 THEN [tag |-> "NoStation"]
       ELSE IF Cardinality(matching_stations) > 1 THEN [tag |-> "Multiple"]
       ELSE [tag |-> "One", name |-> CHOOSE n \in matching_stations : TRUE]

ResolveMonthly(d, station_name) ==
    LET matching_stations == {s.Station_Name : s \in StationsLike(d, station_name)}
    IN IF Cardinality(matching_stations) = 0 THEN [tag |-> "NoStation"]
       ELSE IF Cardinality(matching_stations) > 1 THEN [tag |-> "Multiple"]
       ELSE [tag |-> "One", name |-> CHOOSE n \in matching_stations : TRUE]

\* Ridership JOIN Stations WHERE Station_Name = ?
RidershipOfName(d, name) ==
    {r \in d.Ridership :
       \E s \in d.Stations : s.Station_ID = r.Station_ID /\ s.Station_Name = name}

\* the rows [key, total] of a GROUP BY key ORDER BY key with SUM(Num_Riders),
\* key[r] an integer
SumsByKey(rows, key) ==
    LET groups == {[key |-> k, total |-> SumRiders({r \in rows : key[r] = k})] :
                   k \in {key[r] : r \in rows}}
    IN CHOOSE res \in Orderings(groups, [g \in groups |-> <<g.key>>]) : TRUE

YearlySeries(d, name) ==
    LET rows == RidershipOfName(d, name)
    IN SumsByKey(rows, [r \in rows |-> r.Ride_Date[1]])

MonthlySeries(d, name, year) ==
    LET rows == {r \in RidershipOfName(d, name) : r.Ride_Date[1] = year}
    IN SumsByKey(rows, [r \in rows |-> r.Ride_Date[2]])

ResolutionFailure(res) ==
    IF res.tag = "NoStation"
    THEN [out |-> <<Ev("NoStationFound")>>, err |-> "NotFound"]
    ELSE [out |-> <<Ev("MultipleStationsFound")>>, err |-> "Ambiguous"]

\* up to  input("\nPlot? (y/n) ")
yearly_ridership(d, station_name) ==
    LET res == ResolveYearly(d, station_name)
    IN IF res.tag # "One"
       THEN [out |-> ResolutionFailure(res).out, err |-> ResolutionFailure(res).err,
             pc |-> "loop",
             locals |-> [fn |-> "yearly", pattern |-> station_name, res |-> res]]
       ELSE LET results == YearlySeries(d, res.name)
            IN [out |-> <<[ev |-> "YearlyHeader", station |-> res.name]>>
                        \o [i \in 1..Len(results) |->
                              [ev |-> "Year", year |-> results[i].key,
                               total |-> results[i].total]]
                        \o <<Ev("PromptPlot")>>,
                err |-> "none", pc |-> "yearly_plot",
                locals |-> [fn |-> "yearly", pattern |-> station_name, res |-> res,
                            results |-> results]]

\* up to  input("Enter a year: ")
monthly_ridership(d, station_name) ==
    LET res == ResolveMonthly(d, station_name)
    IN IF res.tag # "One"
       THEN [out |-> ResolutionFailure(res).out, err |-> ResolutionFailure(res).err,
             pc |-> "loop",
             locals |-> [fn |-> "monthly", pattern |-> station_name, res |-> res]]
       ELSE [out |-> <<Ev("PromptYear")>>, err |-> "none", pc |-> "monthly_year",
             locals |-> [fn |-> "monthly", pattern |-> station_name, res |-> res]]

\* from the year to  input("\nPlot? (y/n) ")
monthly_year(d, name, year) ==
    LET results == MonthlySeries(d, name, year)
    IN [out |-> <<[ev |-> "MonthlyHeader", station |-> name, year |-> year]>>
                \o [i \in 1..Len(results) |->
                      [ev |-> "Month", month |-> results[i].key,
                       total |-> results[i].total]]
                \o <<Ev("PromptPlot")>>,
        results |-> results]

\* plt.plot(xs, ys) of one series
SeriesPlot(kind, results) ==
    [kind |-> kind,
     x |-> [i \in 1..Len(results) |-> results[i].key],
     y |-> [i \in 1..Len(results) |-> results[i].total]]

-----------------------------------------------------------------------------
(* daily_ridership_comparison *)

\* SELECT Station_ID, Station_Name FROM Stations WHERE Station_Name LIKE ?
\* with '%' + station_name + '%', and the two tests of len(matching_stations)
ResolveDaily(d, station_name) ==
    LET matching_stations == StationsLike(d, <<37>> \o station_name \o <<37>>)
    IN IF Cardinality(matching_stations) = 0 THEN [tag |-> "NoStation"]
       ELSE IF Cardinality(matching_stations) > 1 THEN [tag |-> "Multiple"]
       ELSE LET s == CHOOSE x \in matching_stations : TRUE
            IN [tag |-> "One", name |-> s.Station_Name, id |-> s.Station_ID]

\* Ridership WHERE Station_ID = ? AND strftime('%Y', Ride_Date) = ?
\* GROUP BY Date ORDER BY Date: the rows [date, riders]
DailySeries(d, station_id, year) ==
    LET rows == {r \in d.Ridership :
                   r.Station_ID = station_id /\ r.Ride_Date[1] = year}
        groups == {[date |-> k,
                    riders |-> SumRiders({r \in rows : r.Ride_Date = k})] :
                   k \in {r.Ride_Date : r \in rows}}
    IN CHOOSE res \in Orderings(groups, [g \in groups |-> g.date]) : TRUE

\* data[:5] and data[-5:]
First5(data) == SubSeq(data, 1, IF Len(data) < 5 THEN Len(data) ELSE 5)
Last5(data) == SubSeq(data, IF Len(data) < 5 THEN 1 ELSE Len(data) - 4, Len(data))

\* the rows printed for one station:  station_data[:5] + station_data[-5:]
ReportRows(data) == First5(data) \o Last5(data)

IsLeap(y) == (y % 4 = 0 /\ y % 100 # 0) \/ y % 400 = 0
DaysInMonth(y, m) ==
    IF m = 2 THEN (IF IsLeap(y) THEN 29 ELSE 28)
    ELSE IF m \in {4, 6, 9, 11} THEN 30 ELSE 31
RECURSIVE DaysBeforeMonth(_, _)
DaysBeforeMonth(y, m) ==
    IF m = 1 THEN 0 ELSE DaysBeforeMonth(y, m - 1) + DaysInMonth(y, m - 1)

\* (date - datetime(date.year, 1, 1)).days + 1
DayOfYear(date) == DaysBeforeMonth(date[1], date[2]) + date[3]

\* dates and days are taken from station1_data, and both plt.plot calls use days
PlotDays(station1_data) ==
    [i \in 1..Len(station1_data) |-> DayOfYear(station1_data[i].date)]

\* plt.plot raises when x and y differ in length; max(days) raises on no days
daily_plot(station1_data, station2_data) ==
    LET days == PlotDays(station1_data)
        ridership1 == [i \in 1..Len(station1_data) |-> station1_data[i].riders]
        ridership2 == [i \in 1..Len(station2_data) |-> station2_data[i].riders]
    IN IF Len(days) # Len(ridership2) \/ days = <<>>
       THEN [plot |-> NoPlot, err |-> "PlotError"]
       ELSE [plot |-> [kind |-> "daily", x1 |-> days, y1 |-> ridership1,
                       x2 |-> days, y2 |-> ridership2],
             err |-> "none"]

-----------------------------------------------------------------------------
(* stations_within_mile *)

\* the text typed for a latitude or a longitude: a number, or not one
Number(v) == [numeric |-> TRUE, value |-> v]
NotANumber == [numeric |-> FALSE, value |-> 0]
\* 41.85, 43.0, 39.0, "abc"
LatitudeInputs == {Number(41850000), Number(43000000), Number(39000000), NotANumber}
\* -87.65, -88.0, -86.9, "abc"
LongitudeInputs == {Number(-87650000), Number(-88000000), Number(-86900000), NotANumber}

\* 1 / 69
MileInDegreesLat == 14493
\* 1 / (math.cos(math.radians(latitude)) * 69.17), the cosine tabulated at
\* the latitudes of LatitudeInputs that are in bounds (41.85 and 43.0)
MileInDegreesLon(latitude) == IF latitude = 43000000 THEN 19768 ELSE 19408

\* round(x, 3)
Round3(x) ==
    LET q == x \div 1000
        r == x % 1000
    IN 1000 * (IF r > 500 THEN q + 1
               ELSE IF r < 500 THEN q
               ELSE IF q % 2 = 0 THEN q ELSE q + 1)

LatitudeInBounds(latitude) == 40000000 <= latitude /\ latitude <= 43000000
LongitudeInBounds(longitude) == -88000000 <= longitude /\ longitude <= -87000000

\* SELECT DISTINCT Station_Name, Latitude, Longitude FROM Stops JOIN Stations
\* WHERE Latitude BETWEEN ? AND ? AND Longitude BETWEEN ? AND ?
StationsInBox(d, latitude, longitude) ==
    LET lat_upper == Round3(latitude + MileInDegreesLat)
        lat_lower == Round3(latitude - MileInDegreesLat)
        lon_left == Round3(longitude - MileInDegreesLon(latitude) - 100)
        lon_right == Round3(longitude + MileInDegreesLon(latitude) + 100)
    IN {[name |-> st.Station_Name, lat |-> s.Latitude, lon |-> s.Longitude] :
        <<s, st>> \in {<<s, st>> \in d.Stops \X d.Stations :
                         /\ s.Station_ID = st.Station_ID
                         /\ lat_lower <= s.Latitude /\ s.Latitude <= lat_upper
                         /\ lon_left <= s.Longitude /\ s.Longitude <= lon_right}}

\* from the longitude to  input("\nPlot? (y/n) ")
stations_within_mile(d, latitude, longitude) ==
    LET results == StationsInBox(d, latitude, longitude)
    IN IF results = {}
       THEN {[out |-> <<Ev("NoStationsFound")>>, err |-> "NotFound",
              pc |-> "loop", results |-> results]}
       ELSE {[out |-> <<Ev("NearHeader")>>
                      \o [i \in 1..Len(sorted_results) |->
                            [ev |-> "Near", name |-> sorted_results[i].name,
                             lat |-> sorted_results[i].lat,
                             lon |-> sorted_results[i].lon]]
                      \o <<Ev("PromptPlot")>>,
              err |-> "none", pc |-> "mile_plot", results |-> results] :
             sorted_results \in Orderings(results, [r \in results |-> r.name])}

-----------------------------------------------------------------------------
(* main: the command loop *)

\* the text of a command: "1" .. "9", "x", "X", and "0", "" that are none
CmdText(n) == <<48 + n>>
ExitInputs == {<<120>>, <<88>>}
UnknownInputs == {CmdText(0), <<>>}

\* command = input("\nPlease enter a command (1-9, x to exit): ")
ReadCommand(c) ==
    /\ pc = "prompt"
    /\ command' = c
    /\ plot' = NoPlot
    /\ UNCHANGED <<db, connOpen>>

\* while True: the loop comes back to its prompt; what the last command
\* printed and kept is gone
LoopBack ==
    /\ pc = "loop"
    /\ pc' = "prompt"
    /\ command' = <<>>
    /\ locals' = NoLocals
    /\ out' = <<>>
    /\ plot' = NoPlot
    /\ err' = "none"
    /\ UNCHANGED <<db, connOpen>>

\* a handler that runs to its end: back in the loop, or an unhandled error
Finish(r) ==
    /\ out' = r.out
    /\ err' = r.err
    /\ pc' = IF r.err \in Fatal THEN "crashed" ELSE "loop"

\* float(input(...)) of a text that is no number raises ValueError
MalformedNumber ==
    /\ out' = <<>>
    /\ err' = "MalformedInput"
    /\ pc' = "crashed"
    /\ locals' = NoLocals

\* dbConn = sqlite3.connect(...); print_stats(dbConn)
Start ==
    /\ pc = "start"
    /\ connOpen' = TRUE
    /\ Finish(print_stats(db))
    /\ UNCHANGED <<db, command, locals, plot>>

\* if command.lower() == "x": break
CommandExit ==
    /\ \E c \in ExitInputs : StrLower(c) = <<120>> /\ ReadCommand(c)
    /\ pc' = "done"
    /\ out' = <<>>
    /\ err' = "none"
    /\ locals' = NoLocals

Command1 ==
    /\ ReadCommand(CmdText(1))
    /\ \E partial_station_name \in PatternInputs :
         \E r \in find_station_names(db, partial_station_name) : Finish(r)
    /\ locals' = NoLocals

Command2 ==
    /\ ReadCommand(CmdText(2))
    /\ \E station_name \in StationNameInputs :
         /\ \E r \in ridership_percentages(db, station_name) : Finish(r)
         /\ locals' = [fn |-> "percentages", station_name |-> station_name]

Command3 ==
    /\ ReadCommand(CmdText(3))
    /\ \E r \in total_weekday_ridership(db) : Finish(r)
    /\ locals' = NoLocals

Command4 ==
    /\ ReadCommand(CmdText(4))
    /\ \E line_color \in ColorInputs :
         LET r == list_stops_line(db, line_color)
         IN /\ out' = r.out
            /\ err' = r.err
            /\ pc' = r.pc
            /\ locals' = r.locals

EnterDirection ==
    /\ pc = "list_stops_direction"
    /\ \E entry \in DirectionInputs :
         \E r \in list_stops_direction(db, locals.line_color, entry) :
            /\ out' = out \o r.out
            /\ err' = r.err
            /\ locals' = [locals EXCEPT !.fn = "list_stops_done"]
                            @@ [direction |-> r.direction]
    /\ pc' = "loop"
    /\ UNCHANGED <<db, connOpen, command, plot>>

Command5 ==
    /\ ReadCommand(CmdText(5))
    /\ \E r \in stops_for_each_color_by_direction(db) : Finish(r)
    /\ locals' = NoLocals

Command6 ==
    /\ ReadCommand(CmdText(6))
    /\ \E station_name \in PatternInputs :
         LET r == yearly_ridership(db, station_name)
         IN /\ out' = r.out
            /\ err' = r.err
            /\ pc' = r.pc
            /\ locals' = r.locals

\* if plot_input.lower() == 'y': ... plt.plot(years, ridership)
YearlyPlot ==
    /\ pc = "yearly_plot"
    /\ \E plot_input \in PlotInputs :
         plot' = IF StrLower(plot_input) = <<121>>
                 THEN SeriesPlot("yearly", locals.results) ELSE NoPlot
    /\ pc' = "loop"
    /\ UNCHANGED <<db, connOpen, command, locals, out, err>>

Command7 ==
    /\ ReadCommand(CmdText(7))
    /\ \E station_name \in PatternInputs :
         LET r == monthly_ridership(db, station_name)
         IN /\ out' = r.out
            /\ err' = r.err
            /\ pc' = r.pc
            /\ locals' = r.locals

MonthlyYear ==
    /\ pc = "monthly_year"
    /\ \E year \in YearInputs :
         LET r == monthly_year(db, locals.res.name, year)
         IN /\ out' = out \o r.out
            /\ locals' = locals @@ [year |-> year, results |-> r.results]
    /\ pc' = "monthly_plot"
    /\ UNCHANGED <<db, connOpen, command, plot, err>>

MonthlyPlot ==
    /\ pc = "monthly_plot"
    /\ \E plot_input \in PlotInputs :
         plot' = IF StrLower(plot_input) = <<121>>
                 THEN SeriesPlot("monthly", locals.results) ELSE NoPlot
    /\ pc' = "loop"
    /\ UNCHANGED <<db, connOpen, command, locals, out, err>>

Command8 ==
    /\ ReadCommand(CmdText(8))
    /\ \E year \in YearInputs : locals' = [fn |-> "daily", year |-> year]
    /\ out' = <<Ev("PromptStation1")>>
    /\ err' = "none"
    /\ pc' = "daily_station1"

\* station1_id, station1_name, station1_data = fetch_daily_ridership(station1)
\* if flag == 1: return
DailyStation1 ==
    /\ pc = "daily_station1"
    /\ \E station1 \in PatternInputs :
         LET res == ResolveDaily(db, station1)
         IN IF res.tag # "One"
            THEN /\ out' = out \o ResolutionFailure(res).out
                 /\ err' = ResolutionFailure(res).err
                 /\ pc' = "loop"
                 /\ locals' = locals @@ [station1 |-> station1, res1 |-> res]
            ELSE /\ out' = out \o <<Ev("PromptStation2")>>
                 /\ err' = "none"
                 /\ pc' = "daily_station2"
                 /\ locals' = locals @@
                      [station1 |-> station1, res1 |-> res,
                       station1_data |-> DailySeries(db, res.id, locals.year)]
    /\ UNCHANGED <<db, connOpen, command, plot>>

\* the second fetch, and the report of both stations
DailyStation2 ==
    /\ pc = "daily_station2"
    /\ \E station2 \in PatternInputs :
         LET res == ResolveDaily(db, station2)
         IN IF res.tag # "One"
            THEN /\ out' = out \o ResolutionFailure(res).out
                 /\ err' = ResolutionFailure(res).err
                 /\ pc' = "loop"
                 /\ locals' = locals @@ [station2 |-> station2, res2 |-> res]
            ELSE LET station2_data == DailySeries(db, res.id, locals.year)
                     Rows(data) == [i \in 1..Len(ReportRows(data)) |->
                                      [ev |-> "Day", date |-> ReportRows(data)[i].date,
                                       riders |-> ReportRows(data)[i].riders]]
                 IN /\ out' = <<[ev |-> "Station1", id |-> locals.res1.id,
                                 name |-> locals.res1.name]>>
                              \o Rows(locals.station1_data)
                              \o <<[ev |-> "Station2", id |-> res.id,
                                    name |-> res.name]>>
                              \o Rows(station2_data)
                              \o <<Ev("PromptPlot")>>
                    /\ err' = "none"
                    /\ pc' = "daily_plot"
                    /\ locals' = locals @@
                         [station2 |-> station2, res2 |-> res,
                          station2_data |-> station2_data]
    /\ UNCHANGED <<db, connOpen, command, plot>>

DailyPlot ==
    /\ pc = "daily_plot"
    /\ \E plot_input \in PlotInputs :
         IF StrLower(plot_input) = <<121>>
         THEN LET r == daily_plot(locals.station1_data, locals.station2_data)
              IN /\ plot' = r.plot
                 /\ err' = r.err
                 /\ pc' = IF r.err \in Fatal THEN "crashed" ELSE "loop"
         ELSE /\ plot' = NoPlot
              /\ err' = "none"
              /\ pc' = "loop"
    /\ UNCHANGED <<db, connOpen, command, locals, out>>

\* lat = float(input("\nEnter a latitude: ")); the function up to
\* input("Enter a longitude: ")
Command9 ==
    /\ ReadCommand(CmdText(9))
    /\ \E lat \in LatitudeInputs :
         IF ~lat.numeric THEN MalformedNumber
         ELSE IF ~LatitudeInBounds(lat.value)
         THEN /\ out' = <<Ev("LatitudeOutOfBounds")>>
              /\ err' = "OutOfRange"
              /\ pc' = "loop"
              /\ locals' = NoLocals
         ELSE /\ out' = <<Ev("PromptLongitude")>>
              /\ err' = "none"
              /\ pc' = "mile_longitude"
              /\ locals' = [fn |-> "within_mile", latitude |-> lat.value]

\* longitude = float(input("Enter a longitude: ")) and the rest, up to the
\* plot question
MileLongitude ==
    /\ pc = "mile_longitude"
    /\ \E lon \in LongitudeInputs :
         IF ~lon.numeric THEN MalformedNumber
         ELSE IF ~LongitudeInBounds(lon.value)
         THEN /\ out' = out \o <<Ev("LongitudeOutOfBounds")>>
              /\ err' = "OutOfRange"
              /\ pc' = "loop"
              /\ locals' = NoLocals
         ELSE \E r \in stations_within_mile(db, locals.latitude, lon.value) :
                 /\ out' = out \o r.out
                 /\ err' = r.err
                 /\ pc' = r.pc
                 /\ locals' = locals @@ [results |-> r.results]
    /\ UNCHANGED <<db, connOpen, command, plot>>

MilePlot ==
    /\ pc = "mile_plot"
    /\ \E plot_input \in PlotInputs :
         plot' = IF StrLower(plot_input) = <<121>>
                 THEN [kind |-> "map", points |-> locals.results] ELSE NoPlot
    /\ pc' = "loop"
    /\ UNCHANGED <<db, connOpen, command, locals, out, err>>

\* print("**Error, unknown command, try again...")
CommandUnknown ==
    /\ \E c \in UnknownInputs : ReadCommand(c)
    /\ out' = <<Ev("UnknownCommand")>>
    /\ err' = "none"
    /\ pc' = "loop"
    /\ locals' = NoLocals

Next ==
    \/ Start
    \/ LoopBack
    \/ CommandExit
    \/ Command1
    \/ Command2
    \/ Command3
    \/ Command4
    \/ EnterDirection
    \/ Command5
    \/ Command6
    \/ YearlyPlot
    \/ Command7
    \/ MonthlyYear
    \/ MonthlyPlot
    \/ Command8
    \/ DailyStation1
    \/ DailyStation2
    \/ DailyPlot
    \/ Command9
    \/ MileLongitude
    \/ MilePlot
    \/ CommandUnknown

-----------------------------------------------------------------------------
(* Specifications: the program started on the datasets of one family *)

InitOn(datasets) ==
    /\ db \in datasets
    /\ connOpen = FALSE
    /\ pc = "start"
    /\ command = <<>>
    /\ locals = NoLocals
    /\ out = <<>>
    /\ plot = NoPlot
    /\ err = "none"

\* the base dataset, and the one with no ridership rows
MainDatasets == {BaseDB, [BaseDB EXCEPT !.Ridership = {}]}

Init == InitOn(MainDatasets)
Spec == Init /\ [][Next]_vars

-----------------------------------------------------------------------------
(* Dataset families: the base dataset with one table drawn from a bounded set *)

Opt(present, row) == IF present THEN {row} ELSE {}

\* station 1 ("Ab") with a total per day type (-1: no row of that type) and
\* a second weekday row, or none; station 2 with one weekday row
PctRidership(w, a, u, x) ==
    {Ride(2, <<2020, 1, 2>>, "W", 1)}
      \cup Opt(w >= 0, Ride(1, <<2020, 1, 2>>, "W", w))
      \cup Opt(x >= 0, Ride(1, <<2020, 1, 3>>, "W", x))
      \cup Opt(a >= 0, Ride(1, <<2020, 1, 4>>, "A", a))
      \cup Opt(u >= 0, Ride(1, <<2020, 1, 5>>, "U", u))

PctDatasets ==
    {[BaseDB EXCEPT !.Ridership = PctRidership(w, a, u, x)] :
     <<w, a, u, x>> \in (-1..MaxRiders) \X (-1..MaxRiders) \X (-1..MaxRiders)
                         \X {-1, 1}}

\* each station with a weekday total (-1: no weekday row), and one Saturday row
WeekdayRidership(n) ==
    {Ride(1, <<2020, 1, 4>>, "A", 1)}
      \cup UNION {Opt(n[i] >= 0, Ride(i, <<2020, 1, 2>>, "W", n[i])) : i \in 1..3}

WeekdayDatasets ==
    {[BaseDB EXCEPT !.Ridership = WeekdayRidership(n)] :
     n \in [1..3 -> -1..MaxWeekdayRiders]}

\* every base stop on one or more of the base lines, in any way
StopsDatasets ==
    {[BaseDB EXCEPT !.StopDetails = sd] :
     sd \in {x \in SUBSET {StopDetail(s.Stop_ID, l.Line_ID) :
                           <<s, l>> \in BaseStops \X BaseLines} :
               \A s \in BaseStops : \E y \in x : y.Stop_ID = s.Stop_ID}}

\* stations 1, 2, 3 named "Ab", "Abb", "Ba" or "ab" in any way
ResolveDatasets ==
    {[BaseDB EXCEPT !.Stations = {Station(i, nm[i]) : i \in 1..3}] :
     nm \in [1..3 -> {TxtAb, TxtAbb, TxtBa, <<97, 98>>}]}

\* the i-th date of the daily families: the 1st of each month of 2020, then
\* the 2nd of each month, ...
DateOf(i) == <<2020, ((i - 1) % 12) + 1, ((i - 1) \div 12) + 1>>

\* station 2 ("Abb") with the first k dates, station 3 ("Ba") with j dates
\* from the second on
DailyRidership(k, j) ==
    {Ride(2, DateOf(i), "W", i) : i \in 1..k}
      \cup {Ride(3, DateOf(i), "W", 1) : i \in 2..(j + 1)}
      \cup {Ride(1, <<2021, 1, 1>>, "W", 1)}

DailyDatasets ==
    {[BaseDB EXCEPT !.Ridership = DailyRidership(k, j)] :
     <<k, j>> \in (0..MaxDays) \X (0..MaxOtherDays)}

SpecPct == InitOn(PctDatasets) /\ [][Next]_vars
SpecWeekday == InitOn(WeekdayDatasets) /\ [][Next]_vars
SpecStops == InitOn(StopsDatasets) /\ [][Next]_vars
SpecResolve == InitOn(ResolveDatasets) /\ [][Next]_vars
SpecDaily == InitOn(DailyDatasets) /\ [][Next]_vars

-----------------------------------------------------------------------------
(* Properties *)

EvRows(name) == SelectSeq(out, LAMBDA e : e.ev = name)
Abs(x) == IF x < 0 THEN -x ELSE x
Ended == {"done", "crashed"}
\* the rows of Ridership of the stations named name
RowsOfName(name) ==
    {r \in db.Ridership :
       \E s \in db.Stations : s.Station_ID = r.Station_ID /\ s.Station_Name = name}

\* C1: every error outcome of a command (NotFound, Ambiguous, OutOfRange,
\* InvalidSelector, MalformedInput) leaves the dataset unchanged and brings
\* the process back to the command loop, and the process ends from inside
\* the loop only by the exit command x.
C1_ErrorOutcomesReturnToLoop ==
    [][/\ err' \in Reported \cup {"MalformedInput"} => db' = db /\ pc' = "loop"
       /\ (pc # "start" /\ pc \notin Ended /\ pc' \in Ended)
            => (pc' = "done" /\ StrLower(command') = <<120>>)]_vars

\* C10: on every path by which the process ends, the connection opened at
\* the start of main has been closed.
C10_ConnectionClosedAtExit == pc \in Ended => ~connOpen

\* C3: when the station named in command 2 has ridership rows whose counts
\* sum to 0, the command completes normally, prints no percentage and
\* reports the zero total.
C3_ZeroTotalReported ==
    (/\ command = CmdText(2)
     /\ RowsOfName(locals.station_name) # {}
     /\ SumRiders(RowsOfName(locals.station_name)) = 0)
    => /\ pc = "loop"
       /\ err = "none"
       /\ EvRows("DayType") = <<>>
       /\ EvRows("Total") = <<[ev |-> "Total", total |-> 0]>>

\* rank of a reported day-type label in the order Weekday, Saturday,
\* Sunday/holiday
LabelRank(label) ==
    IF label = "Weekday" THEN 1 ELSE IF label = "Saturday" THEN 2 ELSE 3

C9Case ==
    /\ command = CmdText(2)
    /\ RowsOfName(locals.station_name) # {}
    /\ SumRiders(RowsOfName(locals.station_name)) > 0
    /\ Cardinality({r.Type_of_Day : r \in RowsOfName(locals.station_name)}) <= 3

\* C9: for a station with a positive total and at most three day-type
\* groups, command 2 reports one row per group, in the order Weekday,
\* Saturday, Sunday/holiday; the rows' totals sum exactly to the reported
\* total and their two-decimal percentages sum to 100 within 0.01.
C9_PercentagesSumTo100 ==
    C9Case =>
      LET rows == EvRows("DayType")
          totals == EvRows("Total")
      IN /\ pc = "loop"
         /\ Len(totals) = 1
         /\ out[Len(out)] = totals[1]
         /\ Len(rows) =
              Cardinality({r.Type_of_Day : r \in RowsOfName(locals.station_name)})
         /\ SumSeq([i \in 1..Len(rows) |-> rows[i].count]) = totals[1].total
         /\ totals[1].total = SumRiders(RowsOfName(locals.station_name))
         /\ Abs(SumSeq([i \in 1..Len(rows) |-> rows[i].pct]) - 10000) <= 1
         /\ \A i, j \in 1..Len(rows) :
              i < j => LabelRank(rows[i].label) < LabelRank(rows[j].label)

\* three groups whose rounded percentages do not sum to exactly 100.00
C9_Witness ==
    /\ C9Case
    /\ Len(EvRows("DayType")) = 3
    /\ SumSeq([i \in 1..3 |-> EvRows("DayType")[i].pct]) # 10000

\* C5: command 3 emits every station that has weekday rows, in descending
\* order of weekday total, two stations of equal total in ascending order
\* of station name.
C5_WeekdayRankingOrder ==
    (command = CmdText(3) /\ pc = "loop") =>
      LET rows == EvRows("StationTotal")
          ranked == {s \in db.Stations :
                       \E r \in db.Ridership :
                          r.Station_ID = s.Station_ID /\ r.Type_of_Day = "W"}
      IN /\ Len(rows) = Cardinality(ranked)
         /\ \A s \in ranked : \E i \in 1..Len(rows) : rows[i].name = s.Station_Name
         /\ \A i, j \in 1..Len(rows) :
              i < j => /\ rows[i].count >= rows[j].count
                       /\ rows[i].count = rows[j].count
                            => SeqLeq(rows[i].name, rows[j].name)

\* C4, as claimed: in command 5 the reported per-(colour, direction) stop
\* counts sum to the total stop count, the number of rows of Stops, that the
\* percentages are taken of, so the percentages sum to 100 within rounding.
C4_StopCountsSumToTotal ==
    (command = CmdText(5) /\ pc = "loop") =>
      LET rows == EvRows("ColorDirection")
          total == EvRows("StopsHeader")[1].total_stops
      IN /\ total = Cardinality(db.Stops)
         /\ SumSeq([i \in 1..Len(rows) |-> rows[i].num_stops]) = total
         /\ total > 0 =>
              2 * Abs(SumSeq([i \in 1..Len(rows) |-> rows[i].pct]) - 10000)
                <= Len(rows)

\* the (stop, line) pairs of the dataset
StopLinePairs ==
    {p \in db.Stops \X db.Lines :
       [Stop_ID |-> p[1].Stop_ID, Line_ID |-> p[2].Line_ID] \in db.StopDetails}

\* C4, amended: the percentages of command 5 are taken of the number of rows
\* of Stops, and the reported counts sum to the number of (stop, line) pairs;
\* when every stop is on exactly one line the counts sum to the total stop
\* count and the percentages to 100 within half a hundredth per row.
C4_StopCountsSumToStopLinePairs ==
    (command = CmdText(5) /\ pc = "loop") =>
      LET rows == EvRows("ColorDirection")
          total == EvRows("StopsHeader")[1].total_stops
          counts == SumSeq([i \in 1..Len(rows) |-> rows[i].num_stops])
      IN /\ total = Cardinality(db.Stops)
         /\ counts = Cardinality(StopLinePairs)
         /\ (\A s \in db.Stops :
                Cardinality({p \in StopLinePairs : p[1] = s}) = 1)
              => /\ counts = total
                 /\ 2 * Abs(SumSeq([i \in 1..Len(rows) |-> rows[i].pct]) - 10000)
                      <= Len(rows)

\* command 5 on a dataset with a stop on two lines: the counts sum to more
\* than the total stop count
C4_Witness ==
    /\ command = CmdText(5)
    /\ pc = "loop"
    /\ \E s \in db.Stops : Cardinality({p \in StopLinePairs : p[1] = s}) = 2
    /\ SumSeq([i \in 1..Len(EvRows("ColorDirection")) |->
                 EvRows("ColorDirection")[i].num_stops])
         > EvRows("StopsHeader")[1].total_stops

\* the outcome of a resolution: no station, many, or the one station's name
Outcome(res) == IF res.tag = "One" THEN <<res.tag, res.name>> ELSE <<res.tag>>

\* C6: for every dataset and pattern the resolution of a station in
\* command 8 has the outcome that the resolutions of commands 6 and 7 have.
C6_SameResolutionRule ==
    /\ (command = CmdText(8) /\ "station1" \in DOMAIN locals) =>
         /\ Outcome(locals.res1) = Outcome(ResolveYearly(db, locals.station1))
         /\ Outcome(locals.res1) = Outcome(ResolveMonthly(db, locals.station1))
    /\ (command = CmdText(8) /\ "station2" \in DOMAIN locals) =>
         /\ Outcome(locals.res2) = Outcome(ResolveYearly(db, locals.station2))
         /\ Outcome(locals.res2) = Outcome(ResolveMonthly(db, locals.station2))

\* the dates of the rows of station id in the requested year
DatesOf(id) ==
    {r.Ride_Date : r \in {x \in db.Ridership :
                            x.Station_ID = id /\ x.Ride_Date[1] = locals.year}}
DateBefore(a, b) == a # b /\ SeqLeq(a, b)

\* the report rule of C2 for the dates printed of a series with the dates D
ReportRule(printed, D) ==
    LET N == Cardinality(D)
        Earliest == {d \in D : Cardinality({e \in D : DateBefore(e, d)}) < 5}
        Latest == {d \in D : Cardinality({e \in D : DateBefore(d, e)}) < 5}
    IN /\ \A i, j \in 1..Len(printed) : i < j => printed[i] # printed[j]
       /\ IF N >= 10
          THEN /\ Len(printed) = 10
               /\ {printed[i] : i \in 1..5} = Earliest
               /\ {printed[i] : i \in 6..10} = Latest
          ELSE /\ Len(printed) = N
               /\ {printed[i] : i \in 1..Len(printed)} = D

\* C2: the report of command 8 prints, for each station, the 5 earliest and
\* the 5 latest days when the series has 10 days or more, and every day once
\* when it has fewer; no day is printed twice.
C2_ReportShowsEachDayOnce ==
    (command = CmdText(8) /\ "station2_data" \in DOMAIN locals) =>
      LET h == CHOOSE i \in 1..Len(out) : out[i].ev = "Station2"
          printed1 == [i \in 1..(h - 2) |-> out[i + 1].date]
          printed2 == [i \in 1..(Len(out) - h - 1) |-> out[h + i].date]
      IN /\ out[1].ev = "Station1"
         /\ ReportRule(printed1, DatesOf(locals.res1.id))
         /\ ReportRule(printed2, DatesOf(locals.res2.id))

\* C7: every point plotted for either station in command 8 is placed at the
\* day of the year of its own date.
C7_PlotAlignsByCalendarDay ==
    (command = CmdText(8) /\ plot.kind = "daily") =>
      /\ Len(plot.x1) = Len(locals.station1_data)
      /\ Len(plot.x2) = Len(locals.station2_data)
      /\ \A i \in 1..Len(plot.x1) :
           plot.x1[i] = DayOfYear(locals.station1_data[i].date)
      /\ \A i \in 1..Len(plot.x2) :
           plot.x2[i] = DayOfYear(locals.station2_data[i].date)

\* the (stop, line) pairs of the colour held by command 4
C8Pairs ==
    {p \in db.Stops \X db.Lines :
       /\ p[2].Color = locals.line_color
       /\ [Stop_ID |-> p[1].Stop_ID, Line_ID |-> p[2].Line_ID] \in db.StopDetails}
C8Entered == "direction" \in DOMAIN locals

\* C8: command 4 asks for the direction only when the colour names a line
\* (else it reports no such line and ends); it lists stops only when the
\* direction is one of those of the stops on that line (else it reports that
\* the line does not run that way and lists nothing); the stops listed are
\* those of the line and direction, in ascending order of stop name.
C8_ListStopsValidationOrder ==
    (command = CmdText(4) /\ pc \in {"list_stops_direction", "loop"}) =>
      LET exists == \E l \in db.Lines : l.Color = locals.line_color
          dirs == {p[1].Direction : p \in C8Pairs}
          stops == EvRows("Stop")
      IN /\ EvRows("PromptDirection") # <<>> => exists
         /\ ~exists => out = <<Ev("NoSuchLine")>> /\ pc = "loop" /\ ~C8Entered
         /\ exists => out[1] = Ev("PromptDirection")
         /\ stops # <<>> => C8Entered /\ locals.direction \in dirs
         /\ (C8Entered /\ locals.direction \notin dirs)
              => out = <<Ev("PromptDirection"), Ev("NotRunDirection")>>
         /\ (C8Entered /\ locals.direction \in dirs) =>
              LET listed == {p \in C8Pairs : p[1].Direction = locals.direction}
              IN /\ out = <<Ev("PromptDirection")>> \o stops
                 /\ Len(stops) = Cardinality(listed)
                 /\ \A p \in listed :
                      Cardinality({i \in 1..Len(stops) :
                                     /\ stops[i].name = p[1].Stop_Name
                                     /\ stops[i].accessible = p[1].ADA
                                     /\ stops[i].direction = locals.direction})
                        = Cardinality({q \in listed :
                                         /\ q[1].Stop_Name = p[1].Stop_Name
                                         /\ q[1].ADA = p[1].ADA})
                 /\ \A i, j \in 1..Len(stops) :
                      i < j => SeqLeq(stops[i].name, stops[j].name)

\* two stops of different names listed after the direction was asked for
C8_Witness ==
    /\ command = CmdText(4)
    /\ pc = "loop"
    /\ out # <<>>
    /\ out[1] = Ev("PromptDirection")
    /\ Len(EvRows("Stop")) >= 2
    /\ EvRows("Stop")[1].name # EvRows("Stop")[2].name

====
